---- MODULE Spec2Model ----
(***************************************************************************)
(* Databricks Metadata Explorer (streamlit-data-app/app.py).               *)
(*                                                                         *)
(* The script is re-run from its first line on every user interaction.     *)
(* Each run asserts the warehouse-id setting, then walks the cascade       *)
(* catalogs -> schemas -> tables -> data preview through four accessors    *)
(* memoized by st.cache_data(ttl=60), each of which delegates to           *)
(* sql_query, which opens a connection and a cursor per call.              *)
(*                                                                         *)
(* The warehouse, the clock and the user are the environment.              *)
(***************************************************************************)
EXTENDS Integers, Sequences, FiniteSets, TLC

VARIABLES
    env,          \* value of DATABRICKS_WAREHOUSE_ID (None when unset)
    now,          \* wall clock, seconds
    wh,           \* current contents of the warehouse (a snapshot name)
    cache,        \* st.cache_data store: key -> [value, expires]
    call,         \* the accessor call in progress, or NoCall
    connections,  \* warehouse connections currently open
    cursors,      \* cursors currently open
    ret,          \* the last accessor call that returned, or NoRet
    sqlLog,       \* statements handed to sql_query since the run began
    pc,           \* position of the script run ("idle" between runs)
    locals,       \* module-level names bound by the current run
    widgets,      \* session widget state: id -> [kind, options, value]
    drawn,        \* widgets rendered by the current run
    shown,        \* dataframes rendered by the current run
    error,        \* the exception that ended the run, or NoError
    prev,         \* the selections of the run before the current one
    sess,         \* accessor calls of concurrent sessions: session -> call
    lock,         \* holder of the cache's compute lock, or Free
    passes,       \* number of runs (or direct calls) started
    changes       \* number of times the warehouse contents changed

vars == <<env, now, wh, cache, call, connections, cursors, ret,
          sqlLog, pc, locals, widgets, drawn, shown, error, prev, sess, lock, passes, changes>>

-----------------------------------------------------------------------------
(* Bounds of the model *)

MaxPasses == 3
MaxClock == 60
MaxChanges == 1

(* Program constants *)

TTL == 60

(* Time is observed in steps of half the freshness window. *)
TickStep == TTL \div 2
DefaultLimit == 10

-----------------------------------------------------------------------------
(* Python values *)

None == "None"

Truthy(x) == x # None /\ x # ""

EnvValues == {None, "", "wh-1"}

Bind(l, name, v) ==
    [n \in DOMAIN l \cup {name} |-> IF n = name THEN v ELSE l[n]]

Empty == [n \in {} |-> None]

Min(a, b) == IF a <= b THEN a ELSE b

-----------------------------------------------------------------------------
(* The warehouse: an external collaborator.  Its contents are one of a few  *)
(* snapshots and may change at any time.                                    *)

Snapshots == {"w1", "w2", "w3"}

WhCatalogs(w) ==
    CASE w = "w1" -> <<"A", "B">>
      [] w = "w2" -> <<"A", "B">>
      [] OTHER    -> <<>>

WhSchemas(w, c) ==
    CASE w = "w1" /\ c = "A" -> <<"s1", "s2">>
      [] w = "w1" /\ c = "B" -> <<"s1", "s2">>
      [] w = "w2" /\ c = "A" -> <<"s1">>
      [] OTHER               -> <<>>

WhTables(w, c, s) ==
    CASE w = "w1" /\ c = "A" /\ s = "s1" -> <<"t1", "t2">>
      [] w = "w1" /\ c = "B" /\ s = "s1" -> <<"t1">>
      [] w = "w1" /\ c = "B" /\ s = "s2" -> <<"t2">>
      [] w = "w2" /\ c = "A" /\ s = "s1" -> <<"t2">>
      [] OTHER                           -> <<>>

WhRowCount(w, c, s, t) ==
    CASE w = "w1" /\ c = "A" /\ s = "s1" /\ t = "t1" -> 12
      [] w = "w1" /\ c = "A" /\ s = "s1" /\ t = "t2" -> 0
      [] w = "w1"                                    -> 3
      [] OTHER                                       -> 1

Range(q) == {q[i] : i \in 1..Len(q)}

HasCatalog(w, c) == c \in Range(WhCatalogs(w))
HasSchema(w, c, s) == HasCatalog(w, c) /\ s \in Range(WhSchemas(w, c))
HasTable(w, c, s, t) == HasSchema(w, c, s) /\ t \in Range(WhTables(w, c, s))

-----------------------------------------------------------------------------
(* SQL statements, built by interpolating the arguments into a template.  *)
(* A statement is kept as its template and the interpolated identifiers.  *)

Statement(text, c, s, t, n) ==
    [text |-> text, catalog |-> c, schema |-> s, table |-> t, limit |-> n]

get_catalogs == Statement("SHOW CATALOGS", "", "", "", 0)

get_schemas(catalog) == Statement("SHOW SCHEMAS IN", catalog, "", "", 0)

get_tables(catalog, schema) ==
    Statement("SHOW TABLES IN", catalog, schema, "", 0)

(* Variant: the statement is built with the default limit. *)
get_table_data_fixed_limit(catalog, schema, table, limit) ==
    Statement("SELECT * FROM", catalog, schema, table, 10)

get_table_data(catalog, schema, table, limit) ==
    Statement("SELECT * FROM", catalog, schema, table, limit)

(* The limit parameter of get_table_data defaults to 10 when omitted. *)
LimitArg(args) == IF Len(args) = 4 THEN args[4] ELSE DefaultLimit

(* The statement the body of accessor fn hands to sql_query. *)
Body(fn, args) ==
    CASE fn = "get_catalogs"   -> get_catalogs
      [] fn = "get_schemas"    -> get_schemas(args[1])
      [] fn = "get_tables"     -> get_tables(args[1], args[2])
      [] fn = "get_table_data" ->
            get_table_data(args[1], args[2], args[3], LimitArg(args))

(* What the warehouse answers to a statement: whether the named object    *)
(* exists, and the rows of the result set.                                 *)
CatalogRows(w) ==
    [i \in 1..Len(WhCatalogs(w)) |-> [catalog |-> WhCatalogs(w)[i]]]

SchemaRows(w, c) ==
    [i \in 1..Len(WhSchemas(w, c)) |-> [databaseName |-> WhSchemas(w, c)[i]]]

TableRows(w, c, s) ==
    [i \in 1..Len(WhTables(w, c, s)) |->
        [database |-> s, tableName |-> WhTables(w, c, s)[i],
         isTemporary |-> FALSE]]

PreviewRows(w, c, s, t, n) ==
    [i \in 1..Min(WhRowCount(w, c, s, t), n) |->
        [tbl |-> <<c, s, t>>, row |-> i]]

Exists(w, st) ==
    CASE st.text = "SHOW CATALOGS"   -> TRUE
      [] st.text = "SHOW SCHEMAS IN" -> HasCatalog(w, st.catalog)
      [] st.text = "SHOW TABLES IN"  -> HasSchema(w, st.catalog, st.schema)
      [] st.text = "SELECT * FROM"   ->
            HasTable(w, st.catalog, st.schema, st.table)

Rows(w, st) ==
    CASE st.text = "SHOW CATALOGS"   -> CatalogRows(w)
      [] st.text = "SHOW SCHEMAS IN" -> SchemaRows(w, st.catalog)
      [] st.text = "SHOW TABLES IN"  -> TableRows(w, st.catalog, st.schema)
      [] st.text = "SELECT * FROM"   ->
            PreviewRows(w, st.catalog, st.schema, st.table, st.limit)

(* A dataframe: the result set of statement `of`. *)
DataFrame(st, rows) == [of |-> st, rows |-> rows]

(* df[col].tolist() *)
Column(df, col) == [i \in 1..Len(df.rows) |-> df.rows[i][col]]

-----------------------------------------------------------------------------
(* st.cache_data(ttl=60): one entry per (function, arguments as passed).   *)

(* Variant: the first parameter is left out of the key. *)
CacheKeyUnhashedFirst(fn, args) ==
    [fn |-> fn, args |-> IF args = <<>> THEN args ELSE Tail(args)]

(* Variant: the key is the function alone. *)
CacheKeyNoArgs(fn, args) == [fn |-> fn, args |-> <<>>]

CacheKey(fn, args) == [fn |-> fn, args |-> args]

(* Variant: the wrapper never finds an entry. *)
FreshNever(k) == FALSE

(* Variant: the wrapper never lets an entry expire. *)
FreshForever(k) == k \in DOMAIN cache

Fresh(k) == k \in DOMAIN cache /\ now < cache[k].expires

(* Each accessor has a cache of its own.  Storing a result at time t       *)
(* first drops the entries of that accessor whose window has elapsed,      *)
(* then creates or replaces the entry of the key.                          *)
Store(c, k, v, t) ==
    LET kept == {x \in DOMAIN c : x.fn # k.fn \/ t < c[x].expires} IN
    [x \in kept \cup {k} |->
        IF x = k THEN [value |-> v, expires |-> t + TTL] ELSE c[x]]

(* The wrapper computes a missing value under the cache's compute lock;    *)
(* a session running alone always finds the lock free.                     *)
Free == "free"
NoSessions == [u \in {} |-> None]

NoCall == [fn |-> "none"]
NoRet == [fn |-> "none"]
NoError == [type |-> "none"]

Active == call.fn # "none"
Key == CacheKey(call.fn, call.args)

(* Entering an accessor: the wrapper first looks the key up.  `raised` is  *)
(* the step of sql_query whose exception is propagating, None when there   *)
(* is none.                                                                *)
Enter(fn, args) ==
    [fn |-> fn, args |-> args, stmt |-> Body(fn, args), stage |-> "lookup",
     rows |-> <<>>, raised |-> None]

(* The session identifies a widget by its label and its options. *)
WidgetId(label, options) == <<label, options>>

(* The widgets a run rendered (d: label -> widget), by their ids. *)
Registered(d) ==
    [id \in {WidgetId(l, d[l].options) : l \in DOMAIN d} |-> d[id[1]]]

(* The widget state of the session after a run that rendered d.  A run     *)
(* that reached its end keeps the state of the widgets it rendered and     *)
(* drops the rest; a run ended by an uncaught exception drops nothing.     *)
AfterRun(e, d) ==
    IF e = NoError
    THEN Registered(d)
    ELSE [id \in DOMAIN widgets \cup DOMAIN Registered(d) |->
            IF id \in DOMAIN Registered(d) THEN Registered(d)[id]
            ELSE widgets[id]]

(* A run ends, by reaching the last line or by an uncaught exception. *)
EndRun(e) ==
    /\ error' = e
    /\ IF pc = "api"
       THEN pc' = pc /\ widgets' = widgets
       ELSE pc' = "idle" /\ widgets' = AfterRun(e, drawn)

(* Variant: a failed statement is handed to sql_query again. *)
RaiseRetry(stage) ==
    /\ call' = [call EXCEPT !.stage = "connect", !.raised = None]
    /\ sqlLog' = Append(sqlLog, call.stmt)
    /\ UNCHANGED <<env, now, wh, cache, ret, pc, locals, widgets, drawn,
                   shown, error, prev, sess, lock, passes, changes>>

(* Variant: the failure is stored as the (empty) result of the call. *)
RaiseMemoized(stage) ==
    /\ call' = NoCall
    /\ EndRun([type |-> "DatabaseError", stage |-> stage, stmt |-> call.stmt])
    /\ cache' = Store(cache, Key, DataFrame(call.stmt, <<>>), now)
    /\ UNCHANGED <<env, now, wh, ret, sqlLog, locals, drawn, shown, prev,
                   sess, lock, passes, changes>>

(* An exception leaves the accessor and is not handled by the script. *)
Raise(stage) ==
    /\ call' = NoCall
    /\ EndRun([type |-> "DatabaseError", stage |-> stage, stmt |-> call.stmt])
    /\ UNCHANGED <<env, now, wh, cache, ret, sqlLog, locals, drawn,
                   shown, prev, sess, lock, passes, changes>>

(* Variant: the resource is not closed. *)
ExitLeak(n) == n

(* Leaving a with block, normally or by an exception, closes its resource. *)
Exit(n) == n - 1

(* What a step of sql_query leaves alone besides the resources. *)
CallFrame == <<env, now, wh, cache, ret, sqlLog, pc, locals, widgets, drawn,
               shown, error, prev, sess, lock, passes, changes>>

(* An exception raised at `stage` starts to propagate: the with blocks     *)
(* entered so far are left one after the other, innermost first.           *)
Throw(stage, next) ==
    /\ call' = [call EXCEPT !.stage = next, !.raised = stage]
    /\ UNCHANGED <<connections, cursors>>
    /\ UNCHANGED CallFrame

CacheHit ==
    /\ Active /\ call.stage = "lookup"
    /\ Fresh(Key)
    /\ ret' = [fn |-> call.fn, args |-> call.args, value |-> cache[Key].value,
               hit |-> TRUE]
    /\ call' = NoCall
    /\ UNCHANGED <<env, now, wh, cache, connections, cursors, sqlLog, pc,
                   locals, widgets, drawn, shown, error, prev, sess, lock, passes, changes>>

CacheMiss ==
    /\ Active /\ call.stage = "lookup"
    /\ ~Fresh(Key)
    /\ call' = [call EXCEPT !.stage = "connect"]
    /\ sqlLog' = Append(sqlLog, call.stmt)
    /\ UNCHANGED <<env, now, wh, cache, connections, cursors, ret,
                   pc, locals, widgets, drawn, shown, error, prev, sess, lock, passes, changes>>

(* sql_query, line by line *)
SqlConnect ==
    /\ Active /\ call.stage = "connect"
    /\ connections' = connections + 1
    /\ call' = [call EXCEPT !.stage = "cursor"]
    /\ UNCHANGED cursors
    /\ UNCHANGED CallFrame

(* sql.connect raises: no with block has been entered. *)
SqlConnectFails ==
    /\ Active /\ call.stage = "connect"
    /\ Throw("connect", "raise")

SqlCursor ==
    /\ Active /\ call.stage = "cursor"
    /\ cursors' = cursors + 1
    /\ call' = [call EXCEPT !.stage = "execute"]
    /\ UNCHANGED connections
    /\ UNCHANGED CallFrame

(* connection.cursor() raises inside the connection block. *)
SqlCursorFails ==
    /\ Active /\ call.stage = "cursor"
    /\ Throw("cursor", "exit_connection")

SqlExecute ==
    /\ Active /\ call.stage = "execute"
    /\ Exists(wh, call.stmt)
    /\ call' = [call EXCEPT !.stage = "fetch", !.rows = Rows(wh, call.stmt)]
    /\ UNCHANGED <<connections, cursors>>
    /\ UNCHANGED CallFrame

(* cursor.execute raises inside both blocks. *)
SqlExecuteFails ==
    /\ Active /\ call.stage = "execute"
    /\ Throw("execute", "exit_cursor")

(* line 19: the rows are fetched and converted; the return statement then  *)
(* leaves the two with blocks.                                             *)
SqlFetch ==
    /\ Active /\ call.stage = "fetch"
    /\ call' = [call EXCEPT !.stage = "exit_cursor"]
    /\ UNCHANGED <<connections, cursors>>
    /\ UNCHANGED CallFrame

(* fetchall_arrow or to_pandas raises inside both blocks. *)
SqlFetchFails ==
    /\ Active /\ call.stage = "fetch"
    /\ Throw("fetch", "exit_cursor")

(* The cursor block is left, by the return or by an exception. *)
SqlCursorExit ==
    /\ Active /\ call.stage = "exit_cursor"
    /\ cursors' = Exit(cursors)
    /\ call' = [call EXCEPT !.stage = "exit_connection"]
    /\ UNCHANGED connections
    /\ UNCHANGED CallFrame

(* The connection block is left: sql_query returns to the accessor, or     *)
(* the exception leaves sql_query.                                         *)
SqlConnectionExit ==
    /\ Active /\ call.stage = "exit_connection"
    /\ connections' = Exit(connections)
    /\ call' = [call EXCEPT
                  !.stage = IF call.raised = None THEN "store" ELSE "raise"]
    /\ UNCHANGED cursors
    /\ UNCHANGED CallFrame

(* The accessor has returned: the wrapper stores the value under the key   *)
(* of the call and returns it.                                             *)
CacheStore ==
    /\ Active /\ call.stage = "store"
    /\ LET df == DataFrame(call.stmt, call.rows) IN
        /\ cache' = Store(cache, Key, df, now)
        /\ ret' = [fn |-> call.fn, args |-> call.args, value |-> df,
                   hit |-> FALSE]
    /\ call' = NoCall
    /\ UNCHANGED <<env, now, wh, connections, cursors, sqlLog, pc, locals,
                   widgets, drawn, shown, error, prev, sess, lock, passes,
                   changes>>

(* The exception leaves the accessor and its wrapper: nothing is stored. *)
AccessorRaises ==
    /\ Active /\ call.stage = "raise"
    /\ UNCHANGED <<connections, cursors>>
    /\ Raise(call.raised)

-----------------------------------------------------------------------------
(* The environment *)

(* Variant: a background task drops the entries whose window has elapsed. *)
TickEvicts ==
    /\ passes > 0
    /\ now + TickStep <= MaxClock
    /\ now' = now + TickStep
    /\ cache' = [k \in {x \in DOMAIN cache : now' < cache[x].expires} |->
                    cache[k]]
    /\ UNCHANGED <<env, wh, call, connections, cursors, ret, sqlLog, pc,
                   locals, widgets, drawn, shown, error, prev, sess, lock,
                   passes, changes>>

(* Time passes, at any point: between runs, between the lines of a run,    *)
(* and while a statement is with the warehouse.  The clock is read by the  *)
(* cache wrapper alone, when it looks a key up and when it stores a        *)
(* result, so the entries a run stores may expire at different times.      *)
(* The clock starts with the first run.                                    *)
Tick ==
    /\ passes > 0
    /\ now + TickStep <= MaxClock
    /\ now' = now + TickStep
    /\ UNCHANGED <<env, wh, cache, call, connections, cursors, ret,
                   sqlLog, pc, locals, widgets, drawn, shown, error, prev,
                   sess, lock, passes, changes>>

(* The contents of the warehouse change.  They are observed only when a   *)
(* statement executes, so the model lets them change at that point, and    *)
(* between runs, when nothing observes them.                               *)
WarehouseChange ==
    /\ \/ Active /\ call.stage = "execute"
       \/ ~Active /\ pc = "idle" /\ passes > 0
    /\ changes < MaxChanges
    /\ changes' = changes + 1
    /\ \E w \in Snapshots \ {wh} : wh' = w
    /\ UNCHANGED <<env, now, cache, call, connections, cursors, ret,
                   sqlLog, pc, locals, widgets, drawn, shown, error, prev, sess, lock,
                   passes>>

-----------------------------------------------------------------------------
(* Streamlit widgets.  A widget is identified by its label and options:    *)
(* the session returns the value it holds for that widget, and a widget    *)
(* not known to the session takes its default.                             *)

Known(label, options) == WidgetId(label, options) \in DOMAIN widgets

(* Variant: the session's value is returned whatever the options are. *)
selectboxByLabel(label, options) ==
    IF options = <<>> THEN None
    ELSE IF \E id \in DOMAIN widgets : id[1] = label
    THEN widgets[CHOOSE id \in DOMAIN widgets : id[1] = label].value
    ELSE options[1]

(* st.sidebar.selectbox(label, options): None when there is nothing to     *)
(* select, the first option by default.                                    *)
selectbox(label, options) ==
    IF options = <<>> THEN None
    ELSE IF Known(label, options)
    THEN widgets[WidgetId(label, options)].value
    ELSE options[1]

(* st.sidebar.checkbox(label): unchecked by default. *)
checkbox(label) ==
    IF Known(label, <<>>) THEN widgets[WidgetId(label, <<>>)].value
    ELSE FALSE

Widget(kind, options, value) ==
    [kind |-> kind, options |-> options, value |-> value]

Bound(name) == name \in DOMAIN locals

(* The value of a name, None when the run has not bound it. *)
Value(name) == IF Bound(name) THEN locals[name] ELSE None

Selections ==
    [catalog |-> Value("selected_catalog"),
     schema  |-> Value("selected_schema"),
     table   |-> Value("selected_table")]

NoSelections == [catalog |-> None, schema |-> None, table |-> None]

-----------------------------------------------------------------------------
(* The user: every interaction re-runs the script from the top. *)

Begin ==
    /\ pc = "idle"
    /\ passes < MaxPasses
    /\ passes' = passes + 1
    /\ pc' = "l8"
    /\ locals' = Empty
    /\ drawn' = Empty
    /\ shown' = Empty
    /\ error' = NoError
    /\ sqlLog' = <<>>
    /\ ret' = NoRet
    /\ prev' = Selections
    /\ UNCHANGED <<env, now, wh, cache, call, connections, cursors,
                   sess, lock, changes>>

(* Opening or reloading the page. *)
Rerun ==
    /\ Begin
    /\ UNCHANGED widgets

(* The page shows the widgets the last run rendered. *)
OnPage(label) == WidgetId(label, drawn[label].options)

(* Picking another option in one of the dropdowns on the page. *)
SelectOption ==
    /\ Begin
    /\ \E label \in DOMAIN drawn :
        /\ drawn[label].kind = "selectbox"
        /\ \E v \in Range(drawn[label].options) :
            /\ v # widgets[OnPage(label)].value
            /\ widgets' = [widgets EXCEPT ![OnPage(label)].value = v]

(* Ticking or clearing one of the checkboxes on the page. *)
ToggleCheckbox ==
    /\ Begin
    /\ \E label \in DOMAIN drawn :
        /\ drawn[label].kind = "checkbox"
        /\ widgets' = [widgets EXCEPT
                         ![OnPage(label)].value = ~widgets[OnPage(label)].value]

-----------------------------------------------------------------------------
(* The script, in source order. *)

ScriptFrame == <<env, now, wh, cache, connections, cursors, sqlLog, prev, sess, lock,
                 passes, changes>>

(* Variant: the setting is not checked. *)
Line8Unchecked ==
    /\ pc = "l8"
    /\ pc' = "l80"
    /\ UNCHANGED <<call, ret, locals, drawn, shown, error, widgets>>
    /\ UNCHANGED ScriptFrame

(* line 8: assert os.getenv('DATABRICKS_WAREHOUSE_ID') *)
Line8 ==
    /\ pc = "l8"
    /\ IF Truthy(env)
       THEN pc' = "l80" /\ UNCHANGED <<error, widgets>>
       ELSE EndRun([type |-> "AssertionError"])
    /\ UNCHANGED <<call, ret, locals, drawn, shown>>
    /\ UNCHANGED ScriptFrame

(* line 80: catalogs = get_catalogs() *)
Step1Call ==
    /\ pc = "l80"
    /\ call' = Enter("get_catalogs", <<>>)
    /\ pc' = "l81"
    /\ UNCHANGED <<ret, locals, widgets, drawn, shown, error>>
    /\ UNCHANGED ScriptFrame

(* lines 80-82: bind catalogs, render the catalog dropdown *)
Step1Select ==
    /\ pc = "l81" /\ ~Active
    /\ LET catalog_list == Column(ret.value, "catalog")
           selected == selectbox("Select a Catalog", catalog_list) IN
        /\ locals' = Bind(Bind(locals, "catalogs", ret.value),
                          "selected_catalog", selected)
        /\ drawn' = Bind(drawn, "Select a Catalog",
                         Widget("selectbox", catalog_list, selected))
    /\ pc' = "l85"
    /\ UNCHANGED <<call, ret, widgets, shown, error>>
    /\ UNCHANGED ScriptFrame

(* lines 85-86: if selected_catalog: schemas = get_schemas(selected_catalog) *)
Step2Call ==
    /\ pc = "l85"
    /\ IF Truthy(locals.selected_catalog)
       THEN /\ call' = Enter("get_schemas", <<locals.selected_catalog>>)
            /\ pc' = "l87"
       ELSE /\ pc' = "l91"
            /\ UNCHANGED call
    /\ UNCHANGED <<ret, locals, widgets, drawn, shown, error>>
    /\ UNCHANGED ScriptFrame

(* lines 86-88: bind schemas, render the schema dropdown *)
Step2Select ==
    /\ pc = "l87" /\ ~Active
    /\ LET schema_list == Column(ret.value, "databaseName")
           selected == selectbox("Select a Schema", schema_list) IN
        /\ locals' = Bind(Bind(locals, "schemas", ret.value),
                          "selected_schema", selected)
        /\ drawn' = Bind(drawn, "Select a Schema",
                         Widget("selectbox", schema_list, selected))
    /\ pc' = "l91"
    /\ UNCHANGED <<call, ret, widgets, shown, error>>
    /\ UNCHANGED ScriptFrame

(* `a and b and ...` over module-level names: left to right, stopping at   *)
(* the first falsy value; reading a name that is not bound raises.         *)
(* Variant: only the first name is tested. *)
AndNamesFirst(names) ==
    IF names = <<>> THEN "true"
    ELSE IF ~Bound(Head(names)) THEN Head(names)
    ELSE IF ~Truthy(locals[Head(names)]) THEN "false"
    ELSE "true"

RECURSIVE AndNames(_)
AndNames(names) ==
    IF names = <<>> THEN "true"
    ELSE IF ~Bound(Head(names)) THEN Head(names)
    ELSE IF ~Truthy(locals[Head(names)]) THEN "false"
    ELSE AndNames(Tail(names))

NameError(name) == [type |-> "NameError", name |-> name]

(* lines 91-92: if selected_catalog and selected_schema: tables = ... *)
Step3Call ==
    /\ pc = "l91"
    /\ LET cond == AndNames(<<"selected_catalog", "selected_schema">>) IN
       IF cond = "true"
       THEN /\ call' = Enter("get_tables", <<locals.selected_catalog,
                                              locals.selected_schema>>)
            /\ pc' = "l93"
            /\ UNCHANGED <<error, widgets>>
       ELSE IF cond = "false"
       THEN /\ pc' = "l98"
            /\ UNCHANGED <<call, error, widgets>>
       ELSE /\ EndRun(NameError(cond))
            /\ UNCHANGED call
    /\ UNCHANGED <<ret, locals, drawn, shown>>
    /\ UNCHANGED ScriptFrame

(* lines 92-94: bind tables, render the table dropdown *)
Step3Select ==
    /\ pc = "l93" /\ ~Active
    /\ LET table_list == Column(ret.value, "tableName")
           selected == selectbox("Select a Table", table_list) IN
        /\ locals' = Bind(Bind(locals, "tables", ret.value),
                          "selected_table", selected)
        /\ drawn' = Bind(drawn, "Select a Table",
                         Widget("selectbox", table_list, selected))
    /\ pc' = "l98"
    /\ UNCHANGED <<call, ret, widgets, shown, error>>
    /\ UNCHANGED ScriptFrame

(* lines 98-100: if selected_catalog and selected_schema and              *)
(* selected_table: data = get_table_data(...) with the default limit       *)
Step4Call ==
    /\ pc = "l98"
    /\ LET cond == AndNames(<<"selected_catalog", "selected_schema",
                              "selected_table">>) IN
       IF cond = "true"
       THEN /\ call' = Enter("get_table_data",
                             <<locals.selected_catalog, locals.selected_schema,
                               locals.selected_table>>)
            /\ pc' = "l101"
            /\ UNCHANGED <<error, widgets>>
       ELSE IF cond = "false"
       THEN /\ pc' = "l106"
            /\ UNCHANGED <<call, error, widgets>>
       ELSE /\ EndRun(NameError(cond))
            /\ UNCHANGED call
    /\ UNCHANGED <<ret, locals, drawn, shown>>
    /\ UNCHANGED ScriptFrame

(* lines 100-101: st.dataframe(data) *)
Step4Show ==
    /\ pc = "l101" /\ ~Active
    /\ locals' = Bind(locals, "data", ret.value)
    /\ shown' = Bind(shown, "Data Preview", ret.value)
    /\ pc' = "l106"
    /\ UNCHANGED <<call, ret, widgets, drawn, error>>
    /\ UNCHANGED ScriptFrame

(* The first of `names` that is not bound, or "" when all are. *)
RECURSIVE Unbound(_)
Unbound(names) ==
    IF names = <<>> THEN ""
    ELSE IF ~Bound(Head(names)) THEN Head(names)
    ELSE Unbound(Tail(names))

(* Variant: ticking the checkbox also clears the cache. *)
SchemasMetadataClears ==
    /\ pc = "l106"
    /\ LET label == "Show Schemas Metadata"
           checked == checkbox(label) IN
        /\ drawn' = Bind(drawn, label, Widget("checkbox", <<>>, checked))
        /\ cache' = IF checked THEN Empty ELSE cache
    /\ pc' = "l111"
    /\ UNCHANGED <<env, now, wh, connections, cursors, sqlLog, prev, sess,
                   lock, passes, changes>>
    /\ UNCHANGED <<call, ret, locals, shown, error, widgets>>

(* lines 106-109: the schemas metadata table *)
SchemasMetadata ==
    /\ pc = "l106"
    /\ LET label == "Show Schemas Metadata"
           checked == checkbox(label)
           missing == Unbound(<<"selected_catalog", "schemas">>) IN
        /\ drawn' = Bind(drawn, label, Widget("checkbox", <<>>, checked))
        /\ IF ~checked
           THEN /\ pc' = "l111"
                /\ UNCHANGED <<shown, error, widgets>>
           ELSE IF missing = ""
           THEN /\ shown' = Bind(shown, "Schemas", locals.schemas)
                /\ pc' = "l111"
                /\ UNCHANGED <<error, widgets>>
           ELSE /\ error' = NameError(missing)
                /\ pc' = "idle"
                /\ widgets' = AfterRun(error', drawn')
                /\ UNCHANGED shown
    /\ UNCHANGED <<call, ret, locals>>
    /\ UNCHANGED ScriptFrame

(* lines 111-114: the tables metadata table; the script ends *)
TablesMetadata ==
    /\ pc = "l111"
    /\ LET label == "Show Tables Metadata"
           checked == checkbox(label)
           missing == Unbound(<<"selected_catalog", "selected_schema",
                                "tables">>) IN
        /\ drawn' = Bind(drawn, label, Widget("checkbox", <<>>, checked))
        /\ IF ~checked
           THEN /\ error' = NoError
                /\ UNCHANGED shown
           ELSE IF missing = ""
           THEN /\ error' = NoError
                /\ shown' = Bind(shown, "Tables", locals.tables)
           ELSE /\ error' = NameError(missing)
                /\ UNCHANGED shown
        /\ pc' = "idle"
        /\ widgets' = AfterRun(error', drawn')
    /\ UNCHANGED <<call, ret, locals>>
    /\ UNCHANGED ScriptFrame

-----------------------------------------------------------------------------
(* The application: a session of the page. *)

Init ==
    /\ env \in EnvValues
    /\ now = 0
    /\ wh \in Snapshots
    /\ cache = Empty
    /\ call = NoCall
    /\ connections = 0
    /\ cursors = 0
    /\ ret = NoRet
    /\ sqlLog = <<>>
    /\ pc = "idle"
    /\ locals = Empty
    /\ widgets = Empty
    /\ drawn = Empty
    /\ shown = Empty
    /\ error = NoError
    /\ prev = NoSelections
    /\ sess = NoSessions
    /\ lock = Free
    /\ passes = 0
    /\ changes = 0

Next ==
    \/ Rerun \/ SelectOption \/ ToggleCheckbox
    \/ Line8
    \/ Step1Call \/ Step1Select
    \/ Step2Call \/ Step2Select
    \/ Step3Call \/ Step3Select
    \/ Step4Call \/ Step4Show
    \/ SchemasMetadata \/ TablesMetadata
    \/ CacheHit \/ CacheMiss
    \/ SqlConnect \/ SqlConnectFails
    \/ SqlCursor \/ SqlCursorFails
    \/ SqlExecute \/ SqlExecuteFails
    \/ SqlFetch \/ SqlFetchFails
    \/ SqlCursorExit \/ SqlConnectionExit
    \/ CacheStore \/ AccessorRaises
    \/ Tick \/ WarehouseChange

Spec == Init /\ [][Next]_vars

-----------------------------------------------------------------------------
(* The accessors called directly, one call at a time, with arguments of    *)
(* the caller's choosing.  The caller first imports the module, which      *)
(* executes the script once from its first line to its last, outside any   *)
(* session (every widget takes its default): the import has gone through   *)
(* the assertion of line 8 and through the cascade, and the calls the      *)
(* cascade made are memoized.  A caller whose import raised has no         *)
(* accessor to call.                                                       *)

ApiCatalogs == {"A", "B"}
ApiSchemas == {"s1"}
ApiTables == {"t1"}
ApiLimits == {5}

ApiCalls ==
    {<<"get_catalogs", <<>>>>}
    \cup {<<"get_schemas", <<c>>>> : c \in ApiCatalogs}
    \cup {<<"get_tables", <<c, s>>>> : c \in ApiCatalogs, s \in ApiSchemas}
    \cup {<<"get_table_data", <<c, s, t>>>> :
            c \in ApiCatalogs, s \in ApiSchemas, t \in ApiTables}
    \cup {<<"get_table_data", <<c, s, t, n>>>> :
            c \in ApiCatalogs, s \in ApiSchemas, t \in ApiTables,
            n \in ApiLimits}

(* import app: lines 1-124 are executed. *)
Import ==
    /\ passes = 0
    /\ widgets = Empty
    /\ Rerun

(* The module has been imported. *)
Imported ==
    \/ pc = "idle" /\ passes > 0 /\ error = NoError
    \/ pc = "api"

ApiCall ==
    /\ Imported /\ ~Active
    /\ passes < MaxPasses
    /\ passes' = passes + 1
    /\ pc' = "api"
    /\ \E c \in ApiCalls : call' = Enter(c[1], c[2])
    /\ sqlLog' = <<>>
    /\ error' = NoError
    /\ ret' = NoRet
    /\ UNCHANGED <<env, now, wh, cache, connections, cursors, locals,
                   widgets, drawn, shown, prev, sess, lock, changes>>

(* The interpreter before the import. *)
InitApi ==
    /\ env \in EnvValues
    /\ now = 0
    /\ wh \in Snapshots
    /\ cache = Empty
    /\ call = NoCall
    /\ connections = 0
    /\ cursors = 0
    /\ ret = NoRet
    /\ sqlLog = <<>>
    /\ pc = "idle"
    /\ locals = Empty
    /\ widgets = Empty
    /\ drawn = Empty
    /\ shown = Empty
    /\ error = NoError
    /\ prev = NoSelections
    /\ sess = NoSessions
    /\ lock = Free
    /\ passes = 0
    /\ changes = 0

NextApi ==
    \/ Import
    \/ Line8
    \/ Step1Call \/ Step1Select
    \/ Step2Call \/ Step2Select
    \/ Step3Call \/ Step3Select
    \/ Step4Call \/ Step4Show
    \/ SchemasMetadata \/ TablesMetadata
    \/ ApiCall
    \/ CacheHit \/ CacheMiss
    \/ SqlConnect \/ SqlConnectFails
    \/ SqlCursor \/ SqlCursorFails
    \/ SqlExecute \/ SqlExecuteFails
    \/ SqlFetch \/ SqlFetchFails
    \/ SqlCursorExit \/ SqlConnectionExit
    \/ CacheStore \/ AccessorRaises
    \/ Tick \/ WarehouseChange

SpecApi == InitApi /\ [][NextApi]_vars

-----------------------------------------------------------------------------
(* Two sessions of the same server process call the same accessor with the *)
(* same arguments.  The cache is shared by the sessions.  The wrapper      *)
(* looks the key up; on a miss it takes the compute lock of the cache,     *)
(* looks the key up again, and computes and stores the value only when     *)
(* the entry is still missing.  The lock is released when the wrapper is   *)
(* left, by a return or by an exception.  Each session's call goes through *)
(* sql_query step by step, as above, and the other session may take steps  *)
(* in between.                                                             *)

Sessions == {"u1", "u2"}

RaceCalls == {<<"get_catalogs", <<>>>>, <<"get_schemas", <<"A">>>>}

RaceEnter(fn, args) ==
    [fn |-> fn, args |-> args, stmt |-> Body(fn, args), stage |-> "lookup",
     rows |-> <<>>, raised |-> None, missed |-> FALSE, absent |-> FALSE,
     queried |-> FALSE, value |-> None, read |-> -1, stored |-> -1]

RaceKey(u) == CacheKey(sess[u].fn, sess[u].args)

AtStage(u, stage) == sess[u].stage = stage

(* What a session's call leaves alone: the script state of the page. *)
RaceFrame == <<env, call, ret, pc, locals, widgets, drawn, shown, error,
               prev, passes>>

(* The call is about to return the value v: the lock is still held. *)
RaceReturn(u, v) ==
    [sess EXCEPT ![u].stage = "release", ![u].value = v]

(* A call that did not take the lock returns the value v. *)
RaceReturnUnlocked(u, v) ==
    [sess EXCEPT ![u].stage = "done", ![u].value = v]

RaceHit(u) ==
    /\ AtStage(u, "lookup")
    /\ Fresh(RaceKey(u))
    /\ sess' = RaceReturnUnlocked(u, cache[RaceKey(u)].value)
    /\ UNCHANGED <<now, wh, cache, connections, cursors, sqlLog, lock,
                   changes>>
    /\ UNCHANGED RaceFrame

RaceMiss(u) ==
    /\ AtStage(u, "lookup")
    /\ ~Fresh(RaceKey(u))
    /\ sess' = [sess EXCEPT ![u].stage = "wait", ![u].missed = TRUE,
                            ![u].absent = RaceKey(u) \notin DOMAIN cache]
    /\ UNCHANGED <<now, wh, cache, connections, cursors, sqlLog, lock,
                   changes>>
    /\ UNCHANGED RaceFrame

(* Variant: the value is computed without waiting for the lock. *)
RaceLockUnguarded(u) ==
    /\ AtStage(u, "wait")
    /\ lock' = u
    /\ sess' = [sess EXCEPT ![u].stage = "locked"]
    /\ UNCHANGED <<now, wh, cache, connections, cursors, sqlLog, changes>>
    /\ UNCHANGED RaceFrame

RaceLock(u) ==
    /\ AtStage(u, "wait")
    /\ lock = Free
    /\ lock' = u
    /\ sess' = [sess EXCEPT ![u].stage = "locked"]
    /\ UNCHANGED <<now, wh, cache, connections, cursors, sqlLog, changes>>
    /\ UNCHANGED RaceFrame

(* Under the lock: another session has stored the value meanwhile. *)
RaceLockedHit(u) ==
    /\ AtStage(u, "locked")
    /\ Fresh(RaceKey(u))
    /\ sess' = RaceReturn(u, cache[RaceKey(u)].value)
    /\ UNCHANGED <<now, wh, cache, connections, cursors, sqlLog, lock,
                   changes>>
    /\ UNCHANGED RaceFrame

(* Under the lock: the entry is still missing, the accessor's body runs. *)
RaceLockedMiss(u) ==
    /\ AtStage(u, "locked")
    /\ ~Fresh(RaceKey(u))
    /\ sess' = [sess EXCEPT ![u].stage = "connect", ![u].queried = TRUE,
                            ![u].read = now]
    /\ sqlLog' = Append(sqlLog, sess[u].stmt)
    /\ UNCHANGED <<now, wh, cache, connections, cursors, lock, changes>>
    /\ UNCHANGED RaceFrame

RaceConnect(u) ==
    /\ AtStage(u, "connect")
    /\ connections' = connections + 1
    /\ sess' = [sess EXCEPT ![u].stage = "cursor"]
    /\ UNCHANGED <<now, wh, cache, cursors, sqlLog, lock, changes>>
    /\ UNCHANGED RaceFrame

RaceCursor(u) ==
    /\ AtStage(u, "cursor")
    /\ cursors' = cursors + 1
    /\ sess' = [sess EXCEPT ![u].stage = "execute"]
    /\ UNCHANGED <<now, wh, cache, connections, sqlLog, lock, changes>>
    /\ UNCHANGED RaceFrame

RaceExecute(u) ==
    /\ AtStage(u, "execute")
    /\ Exists(wh, sess[u].stmt)
    /\ sess' = [sess EXCEPT ![u].stage = "fetch",
                            ![u].rows = Rows(wh, sess[u].stmt)]
    /\ UNCHANGED <<now, wh, cache, connections, cursors, sqlLog, lock,
                   changes>>
    /\ UNCHANGED RaceFrame

(* line 19: the rows are fetched and converted. *)
RaceFetch(u) ==
    /\ AtStage(u, "fetch")
    /\ sess' = [sess EXCEPT ![u].stage = "exit_cursor"]
    /\ UNCHANGED <<now, wh, cache, connections, cursors, sqlLog, lock,
                   changes>>
    /\ UNCHANGED RaceFrame

(* An exception in sql_query starts to propagate: the with blocks entered  *)
(* so far are left one after the other, then the wrapper.                  *)
RaceFails(u) ==
    /\ sess[u].stage \in {"connect", "cursor", "execute", "fetch"}
    /\ sess' = [sess EXCEPT
                  ![u].raised = sess[u].stage,
                  ![u].stage = CASE AtStage(u, "connect") -> "release"
                                 [] AtStage(u, "cursor") -> "exit_connection"
                                 [] OTHER -> "exit_cursor"]
    /\ UNCHANGED <<now, wh, cache, connections, cursors, sqlLog, lock,
                   changes>>
    /\ UNCHANGED RaceFrame

(* The cursor block is left, by the return or by an exception. *)
RaceCursorExit(u) ==
    /\ AtStage(u, "exit_cursor")
    /\ cursors' = Exit(cursors)
    /\ sess' = [sess EXCEPT ![u].stage = "exit_connection"]
    /\ UNCHANGED <<now, wh, cache, connections, sqlLog, lock, changes>>
    /\ UNCHANGED RaceFrame

(* The connection block is left. *)
RaceConnectionExit(u) ==
    /\ AtStage(u, "exit_connection")
    /\ connections' = Exit(connections)
    /\ sess' = [sess EXCEPT
                  ![u].stage = IF sess[u].raised = None THEN "store"
                               ELSE "release"]
    /\ UNCHANGED <<now, wh, cache, cursors, sqlLog, lock, changes>>
    /\ UNCHANGED RaceFrame

(* The wrapper stores the value the accessor returned, under the lock. *)
RaceStore(u) ==
    /\ AtStage(u, "store")
    /\ LET df == DataFrame(sess[u].stmt, sess[u].rows) IN
        /\ cache' = Store(cache, RaceKey(u), df, now)
        /\ sess' = [RaceReturn(u, df) EXCEPT ![u].stored = now]
    /\ UNCHANGED <<now, wh, connections, cursors, sqlLog, lock, changes>>
    /\ UNCHANGED RaceFrame

(* The wrapper is left, by the return or by the exception: the lock is     *)
(* released.                                                               *)
RaceRelease(u) ==
    /\ AtStage(u, "release")
    /\ lock' = Free
    /\ sess' = [sess EXCEPT
                  ![u].stage = IF sess[u].raised = None THEN "done"
                               ELSE "failed"]
    /\ UNCHANGED <<now, wh, cache, connections, cursors, sqlLog, changes>>
    /\ UNCHANGED RaceFrame

RaceTick ==
    /\ now + TickStep <= MaxClock
    /\ now' = now + TickStep
    /\ UNCHANGED <<wh, cache, connections, cursors, sqlLog, sess, lock,
                   changes>>
    /\ UNCHANGED RaceFrame

RaceWarehouseChange ==
    /\ \E u \in Sessions : AtStage(u, "execute")
    /\ changes < MaxChanges
    /\ changes' = changes + 1
    /\ \E w \in Snapshots \ {wh} : wh' = w
    /\ UNCHANGED <<now, cache, connections, cursors, sqlLog, sess, lock>>
    /\ UNCHANGED RaceFrame

InitRace ==
    /\ env = "wh-1"
    /\ now = 0
    /\ wh \in Snapshots
    /\ cache = Empty
    /\ call = NoCall
    /\ connections = 0
    /\ cursors = 0
    /\ ret = NoRet
    /\ sqlLog = <<>>
    /\ pc = "api"
    /\ locals = Empty
    /\ widgets = Empty
    /\ drawn = Empty
    /\ shown = Empty
    /\ error = NoError
    /\ prev = NoSelections
    /\ \E c \in RaceCalls : sess = [u \in Sessions |-> RaceEnter(c[1], c[2])]
    /\ lock = Free
    /\ passes = 0
    /\ changes = 0

NextRace ==
    \/ \E u \in Sessions :
        \/ RaceHit(u) \/ RaceMiss(u)
        \/ RaceLock(u)
        \/ RaceLockedHit(u) \/ RaceLockedMiss(u)
        \/ RaceConnect(u) \/ RaceCursor(u)
        \/ RaceExecute(u) \/ RaceFetch(u)
        \/ RaceFails(u)
        \/ RaceCursorExit(u) \/ RaceConnectionExit(u)
        \/ RaceStore(u) \/ RaceRelease(u)
    \/ RaceTick \/ RaceWarehouseChange

SpecRace == InitRace /\ [][NextRace]_vars

-----------------------------------------------------------------------------
(* Properties of the cached accessors *)

(* The call in progress is about to look its key up, and takes its next    *)
(* step.                                                                   *)
LooksUp == Active /\ call.stage = "lookup" /\ call' # call

(* The entry of the call's key is within its 60-second window. *)
InWindow == Key \in DOMAIN cache /\ now < cache[Key].expires

(* The call in progress stores and returns its result. *)
Returns == Active /\ call.stage = "store" /\ ~Active' /\ error' = error

(* C1: a call made while the entry of its key is within its 60-second      *)
(* window returns the result the first call (the one that created the      *)
(* entry) returned and stored, without handing any statement to the        *)
(* warehouse: no query is logged, no connection is opened, the cache is    *)
(* left as it is.  The entry is created with a 60-second window by the     *)
(* call that queried the warehouse, and holds what that call returned.     *)
C1_Idempotent ==
    [][/\ (LooksUp /\ InWindow) =>
            /\ ~Active'
            /\ ret'.fn = call.fn /\ ret'.args = call.args
            /\ ret'.value = cache[Key].value
            /\ sqlLog' = sqlLog
            /\ connections' = connections /\ cursors' = cursors
            /\ cache' = cache
       /\ Returns =>
            /\ Len(sqlLog) >= 1 /\ sqlLog[Len(sqlLog)] = call.stmt
            /\ ret'.fn = call.fn /\ ret'.args = call.args
            /\ cache'[Key] = [value |-> ret'.value, expires |-> now + 60]
      ]_vars

(* A second call has been served from the cache within the window: the    *)
(* run queried nothing.                                                    *)
C1_Witness ==
    /\ pc = "l85"
    /\ ret.fn = "get_catalogs" /\ ret.hit
    /\ sqlLog = <<>>
    /\ now > 0
    /\ Len(ret.value.rows) = 2

(* C2: once the window of an entry has elapsed, the next call with its key *)
(* hands the statement to the warehouse again, and on return replaces the  *)
(* entry by the new result with a new 60-second window.  An entry within   *)
(* its window is never changed nor removed.                                *)
C2_Expiry ==
    [][/\ (LooksUp /\ Key \in DOMAIN cache /\ now >= cache[Key].expires) =>
            /\ Active' /\ call'.stage = "connect"
            /\ sqlLog' = Append(sqlLog, call.stmt)
       /\ Returns =>
            cache'[Key] = [value |-> ret'.value, expires |-> now + 60]
       /\ \A k \in DOMAIN cache :
            now < cache[k].expires =>
                k \in DOMAIN cache' /\ cache'[k] = cache[k]
      ]_vars

(* An expired entry has been replaced by a different result. *)
C2_Witness ==
    /\ pc = "l85"
    /\ ret.fn = "get_catalogs" /\ ~ret.hit
    /\ now = 60
    /\ cache[CacheKey("get_catalogs", <<>>)].expires = 120
    /\ prev.catalog = "A"
    /\ ret.value.rows = <<>>

-----------------------------------------------------------------------------
(* Properties of the cascade *)

IsDrawn(label) == label \in DOMAIN drawn
IsShown(title) == title \in DOMAIN shown

(* C3: the schema list a run shows, in the schema dropdown and in the      *)
(* schemas metadata table, is the result of SHOW SCHEMAS IN the catalog    *)
(* selected in that same run, and is a schema list the warehouse held for  *)
(* that catalog.                                                           *)
C3_SchemasOfSelectedCatalog ==
    /\ IsDrawn("Select a Schema") =>
        /\ Bound("selected_catalog") /\ Bound("schemas")
        /\ drawn["Select a Catalog"].value = locals.selected_catalog
        /\ locals.schemas.of =
              Statement("SHOW SCHEMAS IN", locals.selected_catalog, "", "", 0)
        /\ drawn["Select a Schema"].options =
              Column(locals.schemas, "databaseName")
        /\ \E w \in Snapshots :
              locals.schemas.rows = SchemaRows(w, locals.selected_catalog)
    /\ IsShown("Schemas") =>
        /\ IsDrawn("Select a Schema")
        /\ shown["Schemas"] = locals.schemas

(* After catalog A, catalog B is selected; the list shown is the one of B, *)
(* which differs from the list of A still held in the cache.               *)
C3_Witness ==
    /\ pc = "idle"
    /\ prev.catalog = "A"
    /\ Value("selected_catalog") = "B"
    /\ IsShown("Schemas")
    /\ shown["Schemas"].rows # <<>>
    /\ CacheKey("get_schemas", <<"A">>) \in DOMAIN cache
    /\ cache[CacheKey("get_schemas", <<"A">>)].value.rows # <<>>
    /\ cache[CacheKey("get_schemas", <<"A">>)].value.rows
          # shown["Schemas"].rows

(* The children a run renders are keyed to the selections of that run. *)
ChildrenOfCurrentParent ==
    /\ Bound("tables") =>
        locals.tables.of =
            Statement("SHOW TABLES IN", locals.selected_catalog,
                      locals.selected_schema, "", 0)
    /\ IsShown("Tables") => shown["Tables"] = locals.tables
    /\ IsShown("Data Preview") =>
        shown["Data Preview"].of =
            Statement("SELECT * FROM", locals.selected_catalog,
                      locals.selected_schema, locals.selected_table, 10)

(* The catalog selected in this run is not the one of the run before. *)
CatalogChanged ==
    /\ prev.catalog # None
    /\ Bound("selected_catalog")
    /\ locals.selected_catalog # prev.catalog

(* A schema picked under the previous catalog (it is not the default of    *)
(* the dropdown) is in use under the new one.                              *)
SchemaCarriedOver ==
    /\ CatalogChanged
    /\ Bound("selected_schema")
    /\ locals.selected_schema # None
    /\ locals.selected_schema = prev.schema
    /\ locals.selected_schema # drawn["Select a Schema"].options[1]

(* C4: the children rendered are keyed to the selections of the same run,  *)
(* and no schema selection carried over from the previously selected       *)
(* catalog is used to build a query or a rendered table.                   *)
C4_NoStaleParent ==
    /\ ChildrenOfCurrentParent
    /\ ~(SchemaCarriedOver /\ Bound("tables"))

(* A run has drawn a dropdown with nothing to select. *)
EmptyDropdown ==
    \E label \in DOMAIN drawn :
        drawn[label].kind = "selectbox" /\ drawn[label].options = <<>>

(* C5: a catalog without schemas yields an empty list, and a run that      *)
(* draws an empty dropdown does not raise, whatever the checkboxes.        *)
C5_EmptyDoesNotRaise ==
    /\ (ret.fn = "get_schemas" /\ ~ret.hit
            /\ WhSchemas(wh, ret.args[1]) = <<>> /\ changes = 0)
        => ret.value.rows = <<>>
    /\ EmptyDropdown => error.type # "NameError"

(* C6: with the warehouse id unset (or empty) every run stops at the       *)
(* assertion of line 8: no accessor is entered, no statement is handed to  *)
(* the warehouse, no connection is opened, nothing is cached or rendered.  *)
C6_UnsetWarehouseIdStopsRun ==
    ~Truthy(env) =>
        /\ pc \in {"idle", "l8"}
        /\ ~Active
        /\ ret = NoRet
        /\ sqlLog = <<>>
        /\ connections = 0 /\ cursors = 0
        /\ cache = Empty
        /\ locals = Empty /\ drawn = Empty /\ shown = Empty
        /\ (pc = "idle" /\ passes > 0) => error.type = "AssertionError"

C6_Witness ==
    /\ env = None
    /\ pc = "idle"
    /\ passes = 2
    /\ error.type = "AssertionError"

-----------------------------------------------------------------------------
(* Properties of the query executor *)

NoDuplicates(q) == \A i, j \in 1..Len(q) : q[i] = q[j] => i = j

(* The accessor call in progress ends without returning a value. *)
Fails == Active /\ ~Active' /\ ret' = ret

(* An exception raised in sql_query is on its way out of the call. *)
Propagating == Active /\ call.raised # None

(* C7: a failure of the executor ends the accessor call and the run with   *)
(* that error: nothing is returned or cached, the run hands no further     *)
(* statement to the warehouse, and no statement is handed to it twice in   *)
(* a run.                                                                  *)
C7_FailureAbortsRun ==
    /\ [](/\ NoDuplicates(sqlLog)
          /\ error.type = "DatabaseError" =>
                /\ pc = "idle" /\ ~Active
                /\ sqlLog # <<>>
                /\ sqlLog[Len(sqlLog)] = error.stmt)
    /\ [][/\ Fails =>
                /\ call.raised \in {"connect", "cursor", "execute", "fetch"}
                /\ error' = [type |-> "DatabaseError", stage |-> call.raised,
                             stmt |-> call.stmt]
                /\ pc' = "idle"
                /\ sqlLog' = sqlLog
                /\ cache' = cache
          /\ Propagating =>
                /\ UNCHANGED <<cache, ret, sqlLog, locals, drawn, shown>>
                /\ Fails \/ (Active' /\ call'.raised = call.raised)
          /\ (error.type = "DatabaseError" /\ sqlLog' # sqlLog) =>
                (passes' = passes + 1 /\ sqlLog' = <<>>)
         ]_vars

(* The second statement of a run failed: the run stopped there. *)
C7_Witness ==
    /\ error.type = "DatabaseError"
    /\ error.stage = "execute"
    /\ Len(sqlLog) = 2
    /\ Bound("selected_catalog") /\ ~Bound("schemas")
    /\ pc = "idle"

(* The steps of sql_query inside its connection block, and inside its     *)
(* cursor block.                                                           *)
InConnectionBlock ==
    Active /\ call.stage \in {"cursor", "execute", "fetch", "exit_cursor",
                              "exit_connection"}
InCursorBlock ==
    Active /\ call.stage \in {"execute", "fetch", "exit_cursor"}

(* C8: sql_query holds one connection from connect until its connection    *)
(* block is left, and one cursor from cursor() until its cursor block is   *)
(* left, by the return or by an exception; the cursor is closed before     *)
(* the connection; once sql_query has returned or raised, outside a call,  *)
(* and while the wrapper looks the key up or stores, none is open.         *)
C8_ConnectionScoped ==
    /\ connections = IF InConnectionBlock THEN 1 ELSE 0
    /\ cursors = IF InCursorBlock THEN 1 ELSE 0
    /\ cursors <= connections

(* A statement failed while the connection and the cursor were open; both  *)
(* are closed.                                                             *)
C8_Witness ==
    /\ error.type = "DatabaseError"
    /\ error.stage \in {"execute", "fetch"}
    /\ ~Active
    /\ connections = 0 /\ cursors = 0

(* C9: what an accessor returns, fresh or from the cache, is the result of *)
(* the statement of its own arguments, and every cache entry holds a       *)
(* result read under the catalog of its key; what get_schemas(C) returns   *)
(* is a schema list the warehouse held for C.                              *)
C9_NoCrossCatalogLeak ==
    /\ ret.fn # "none" => ret.value.of = Body(ret.fn, ret.args)
    /\ ret.fn = "get_schemas" =>
        /\ ret.value.of.catalog = ret.args[1]
        /\ \E w \in Snapshots : ret.value.rows = SchemaRows(w, ret.args[1])
    /\ \A k \in DOMAIN cache :
        Len(k.args) >= 1 => cache[k].value.of.catalog = k.args[1]

(* get_schemas("B") is served from the cache while the cache holds a       *)
(* different list for "A".                                                 *)
C9_Witness ==
    /\ ret.fn = "get_schemas" /\ ret.args = <<"B">> /\ ret.hit
    /\ CacheKey("get_schemas", <<"A">>) \in DOMAIN cache
    /\ now < cache[CacheKey("get_schemas", <<"A">>)].expires
    /\ cache[CacheKey("get_schemas", <<"A">>)].value.rows # ret.value.rows

(* The limit a call of get_table_data asks for. *)
AskedLimit(args) == IF Len(args) = 4 THEN args[4] ELSE 10

(* C10: get_table_data returns at most `limit` rows (10 when the limit is  *)
(* omitted), all of the table named, and what it returns, fresh or from    *)
(* the cache, was read with the limit of the call.                         *)
C10_PreviewLimit ==
    ret.fn = "get_table_data" =>
        /\ Len(ret.value.rows) <= AskedLimit(ret.args)
        /\ \A i \in 1..Len(ret.value.rows) :
              ret.value.rows[i].tbl = <<ret.args[1], ret.args[2], ret.args[3]>>
        /\ ret.value.of.text = "SELECT * FROM"
        /\ ret.value.of.limit = AskedLimit(ret.args)

(* A table of more than 10 rows is previewed with limit 5 while the cache  *)
(* holds its 10-row preview.                                               *)
C10_Witness ==
    /\ ret.fn = "get_table_data" /\ ret.args = <<"A", "s1", "t1", 5>>
    /\ Len(ret.value.rows) = 5
    /\ CacheKey("get_table_data", <<"A", "s1", "t1">>) \in DOMAIN cache
    /\ now < cache[CacheKey("get_table_data", <<"A", "s1", "t1">>)].expires
    /\ Len(cache[CacheKey("get_table_data", <<"A", "s1", "t1">>)].value.rows)
          = 10

-----------------------------------------------------------------------------
(* Concurrent sessions *)

Done(u) == AtStage(u, "done")
BothDone == \A u \in Sessions : Done(u)
(* Both calls looked the key up before either had stored a value. *)
BothMissed == \A u \in Sessions : sess[u].missed /\ sess[u].absent
Queried == {u \in Sessions : sess[u].queried}

(* The statement as written: two calls that both missed and have both     *)
(* completed obtained the same result, held by the single entry of the     *)
(* key.                                                                    *)
C11_SameResult ==
    BothDone /\ BothMissed =>
        /\ \A u \in Sessions : DOMAIN cache = {RaceKey(u)}
        /\ \A u, v \in Sessions : sess[u].value = sess[v].value

(* C11: when two sessions have completed the same call, the cache holds    *)
(* one entry, that of their key.  A call that missed and found the other   *)
(* session's entry under the lock did not query the warehouse: then one    *)
(* statement was issued, and both sessions obtained the value of the       *)
(* entry.  Both sessions queried the warehouse only when the entry one of  *)
(* them had stored was no longer fresh when the other looked it up under   *)
(* the lock; the entry then holds the value of the later of the two.       *)
C11_Converges ==
    BothDone =>
        /\ \A u \in Sessions : DOMAIN cache = {RaceKey(u)}
        /\ Len(sqlLog) = Cardinality(Queried)
        /\ Cardinality(Queried) = 1 =>
              \A u \in Sessions : sess[u].value = cache[RaceKey(u)].value
        /\ Cardinality(Queried) = 2 =>
              \E a, b \in Sessions :
                 /\ a # b
                 /\ sess[b].read >= sess[a].stored + TTL
                 /\ cache[RaceKey(b)].value = sess[b].value

(* Both sessions missed, one of them queried the warehouse, the other      *)
(* returned the stored entry after waiting for the lock.                   *)
C11_Witness ==
    /\ BothDone /\ BothMissed
    /\ Cardinality(Queried) = 1
    /\ Len(sqlLog) = 1

-----------------------------------------------------------------------------
(* The cascade *)

(* The name the script binds the result of an accessor to. *)
ResultName(fn) ==
    CASE fn = "get_catalogs"   -> "catalogs"
      [] fn = "get_schemas"    -> "schemas"
      [] fn = "get_tables"     -> "tables"
      [] fn = "get_table_data" -> "data"

(* The kind of statement the accessor issues. *)
TextOf(fn) == Body(fn, <<"", "", "">>).text

(* The accessor has been called in the current run: its call is in        *)
(* progress, has returned, or has raised.                                  *)
Called(fn) ==
    \/ ret.fn = fn
    \/ Active /\ call.fn = fn
    \/ Bound(ResultName(fn))
    \/ error.type = "DatabaseError" /\ error.stmt.text = TextOf(fn)

Selected(name) == Truthy(Value(name))

(* The run has gone through the cascade, or was ended by it. *)
CascadeOver ==
    \/ pc \in {"l106", "l111"}
    \/ pc = "idle" /\ passes > 0 /\ error.type # "AssertionError"

(* The calls made so far in the run are those of the cascade: each after   *)
(* the one before it has returned, each with the selections above it, all  *)
(* of them non-null; once the cascade is over, every call the selections   *)
(* permit has been made.                                                   *)
CascadeCalls ==
    LET catalog == Selected("selected_catalog")
        schema  == Selected("selected_schema")
        table   == Selected("selected_table")
        schemasCalled == Called("get_schemas")
        tablesCalled  == Called("get_tables")
        previewCalled == Called("get_table_data")
    IN
    /\ schemasCalled => Bound("catalogs") /\ catalog
    /\ tablesCalled => Bound("schemas") /\ catalog /\ schema
    /\ previewCalled => Bound("tables") /\ catalog /\ schema /\ table
    /\ Active /\ pc # "api" =>
          /\ \A i \in 1..Len(call.args) : Truthy(call.args[i])
          /\ call.args = SubSeq(<<Value("selected_catalog"),
                                  Value("selected_schema"),
                                  Value("selected_table")>>,
                                1, Len(call.args))
    /\ CascadeOver =>
          /\ Called("get_catalogs")
          /\ catalog => schemasCalled
          /\ catalog /\ schema => tablesCalled
          /\ catalog /\ schema /\ table => previewCalled

(* C12: in every run the accessors are called in the order catalogs,       *)
(* schemas, tables, preview, each after the one before it has returned,    *)
(* and exactly those the selections permit: get_catalogs always,           *)
(* get_schemas iff a catalog is selected, get_tables iff a catalog and a   *)
(* schema are selected, get_table_data iff a catalog, a schema and a table *)
(* are selected.  No accessor is ever called with a null argument.         *)
C12_CascadeCalls == []CascadeCalls

(* A run over a catalog without schemas has ended: the catalogs and the    *)
(* schemas were fetched, no schema is selected, and neither the tables nor *)
(* the preview were asked for.                                             *)
C12_Witness ==
    /\ pc = "idle" /\ passes > 0 /\ error = NoError
    /\ Called("get_catalogs") /\ Called("get_schemas")
    /\ Selected("selected_catalog") /\ ~Selected("selected_schema")
    /\ ~Called("get_tables") /\ ~Called("get_table_data")

-----------------------------------------------------------------------------
(* The metadata checkboxes *)

Checkboxes == {"Show Schemas Metadata", "Show Tables Metadata"}

(* The dropdowns among a set of widgets, with their options and values. *)
DropDowns(w) ==
    [label \in {x \in DOMAIN w : w[x].kind = "selectbox"} |-> w[label]]

(* The run is at one of the two checkbox blocks (lines 103-114). *)
AtMetadata == pc \in {"l106", "l111"}

(* The user toggles a checkbox: the run that starts differs from a plain   *)
(* rerun by the value of that checkbox.                                    *)
Toggles ==
    /\ pc = "idle" /\ pc' = "l8"
    /\ \E label \in Checkboxes :
          /\ Known(label, <<>>)
          /\ widgets'[WidgetId(label, <<>>)].value
                # widgets[WidgetId(label, <<>>)].value

(* The session holds the dropdowns of d with the values they have in d. *)
HoldsDropDowns(w, d) ==
    \A id \in DOMAIN DropDowns(Registered(d)) :
        id \in DOMAIN w /\ w[id] = Registered(d)[id]

(* C13: the checkboxes only gate rendering.  No checkbox is consulted      *)
(* before the cascade is over, so the selections, the statements issued    *)
(* and the cache of a run are settled without them; toggling one changes   *)
(* neither the cache nor what the session holds for the dropdowns; and     *)
(* the two checkbox blocks change neither the names bound by the run (the  *)
(* selections among them), nor the statements issued, nor the cache, nor   *)
(* the dropdowns rendered, and a run that ends in them, either way, leaves *)
(* the session holding the dropdowns it rendered with the selections of    *)
(* the run.                                                                *)
C13_TogglesOnlyGateRendering ==
    /\ [](~AtMetadata /\ pc # "idle" => Checkboxes \cap DOMAIN drawn = {})
    /\ [][Toggles => /\ cache' = cache
                     /\ DropDowns(widgets') = DropDowns(widgets)]_vars
    /\ [][AtMetadata =>
            /\ UNCHANGED <<locals, cache, sqlLog, call, ret, connections,
                           cursors>>
            /\ DropDowns(drawn') = DropDowns(drawn)
            /\ pc' = "idle" => HoldsDropDowns(widgets', drawn)]_vars

(* A run with both checkboxes ticked has rendered the preview and the two  *)
(* metadata tables.                                                        *)
C13_Witness ==
    /\ pc = "idle" /\ error = NoError
    /\ \A label \in Checkboxes : label \in DOMAIN drawn /\ drawn[label].value
    /\ {"Data Preview", "Schemas", "Tables"} \subseteq DOMAIN shown
    /\ sqlLog # <<>>

-----------------------------------------------------------------------------
(* Between interactions *)

(* What the session shows and holds, and what the process caches. *)
PageState == <<locals, widgets, drawn, shown, error, cache, sqlLog, call,
               ret, connections, cursors>>

Expired(k) == k \in DOMAIN cache /\ now >= cache[k].expires

(* A step replaces or creates the entry of key k. *)
Recomputes(k) ==
    /\ k \in DOMAIN cache'
    /\ k \notin DOMAIN cache \/ cache'[k] # cache[k]

(* C14: nothing is refreshed in the background.  While no run is in        *)
(* progress only the environment moves (time passes, the warehouse         *)
(* changes): the selections, what is rendered and the cache stay as the    *)
(* last run left them.  The cache changes only when the wrapper stores the *)
(* result of a call made by a run, and only the entry of that call's key   *)
(* is recomputed: every other entry stays as it is, unless it belongs to   *)
(* the same accessor and its window has elapsed, in which case the store   *)
(* drops it.  So an entry whose window has elapsed is recomputed only by   *)
(* a call with its key made by a run.                                      *)
C14_NoBackgroundRefresh ==
    /\ [][pc = "idle" /\ pc' = "idle" => UNCHANGED PageState]_vars
    /\ [][cache' # cache =>
            /\ pc \notin {"idle", "api"}
            /\ Active /\ call.stage = "store"
            /\ ~InWindow
            /\ \A k \in DOMAIN cache \cup DOMAIN cache' :
                  Recomputes(k) => k = Key
            /\ \A k \in DOMAIN cache \ {Key} :
                  IF k.fn = Key.fn /\ Expired(k)
                  THEN k \notin DOMAIN cache'
                  ELSE k \in DOMAIN cache' /\ cache'[k] = cache[k]]_vars

(* Between two runs, time has passed and the warehouse has changed: the    *)
(* cache still holds an entry whose window has elapsed, and the page still *)
(* shows the schema list of that entry, which the warehouse no longer      *)
(* holds.                                                                  *)
C14_Witness ==
    /\ pc = "idle" /\ passes > 0 /\ changes > 0
    /\ \E k \in DOMAIN cache :
          /\ Expired(k)
          /\ Bound("schemas") /\ locals.schemas = cache[k].value
          /\ ~Exists(wh, cache[k].value.of)
                \/ Rows(wh, cache[k].value.of) # cache[k].value.rows

-----------------------------------------------------------------------------
(* Failed calls and the cache *)

(* C15: a failed accessor call is not memoized.  The failing step leaves   *)
(* the cache as it was, entry for entry, so the key of the call still has  *)
(* no entry within its window; and a call that finds no such entry, the    *)
(* next one with the same arguments included, hands its statement to the   *)
(* warehouse.                                                              *)
C15_FailureNotMemoized ==
    /\ [][Fails => /\ cache' = cache
                   /\ ~InWindow
                   /\ Key \in DOMAIN cache' => now' >= cache'[Key].expires]_vars
    /\ [][LooksUp /\ ~InWindow =>
            /\ call'.stage = "connect"
            /\ sqlLog' = Append(sqlLog, call.stmt)
            /\ cache' = cache]_vars

(* The second run, less than 60 seconds after the first: the catalogs come *)
(* from the cache, and the schemas of catalog A, whose listing failed in   *)
(* the first run, have no entry and are asked of the warehouse again.      *)
C15_Witness ==
    /\ passes = 2 /\ now < TTL
    /\ Active /\ call.fn = "get_schemas" /\ call.args = <<"A">>
    /\ call.stage = "connect"
    /\ sqlLog = <<call.stmt>>
    /\ CacheKey("get_catalogs", <<>>) \in DOMAIN cache
    /\ Key \notin DOMAIN cache

-----------------------------------------------------------------------------
(* Selections and the lists they are taken from *)

(* The preview statement of the selections of the run. *)
PreviewOfSelections ==
    get_table_data(Value("selected_catalog"), Value("selected_schema"),
                   Value("selected_table"), DefaultLimit)

Listed(name, col, value) ==
    /\ Bound(name)
    /\ \E i \in 1..Len(locals[name].rows) : locals[name].rows[i][col] = value

(* A preview statement is the one of the selections of the run, each of    *)
(* them listed by the run.                                                 *)
FromListedTriple(st) ==
    st.text = "SELECT * FROM" =>
        /\ st = PreviewOfSelections
        /\ Listed("catalogs", "catalog", st.catalog)
        /\ Listed("schemas", "databaseName", st.schema)
        /\ Listed("tables", "tableName", st.table)

(* C16: in every run a selected schema is an element of the schema list    *)
(* the run fetched for its selected catalog, a selected table is an        *)
(* element of the table list the run fetched for its selected catalog and  *)
(* schema, and the preview statement, whether it is in progress, was       *)
(* answered by the warehouse or from the cache, or failed, is built from   *)
(* the three selections, each listed under its parent in that run.         *)
C16_SelectionsAreListed ==
    /\ Selected("selected_schema") =>
          /\ Listed("schemas", "databaseName", locals.selected_schema)
          /\ locals.schemas.of = get_schemas(locals.selected_catalog)
    /\ Selected("selected_table") =>
          /\ Listed("tables", "tableName", locals.selected_table)
          /\ locals.tables.of = get_tables(locals.selected_catalog,
                                           locals.selected_schema)
    /\ Active /\ pc # "api" => FromListedTriple(call.stmt)
    /\ \A i \in 1..Len(sqlLog) : FromListedTriple(sqlLog[i])
    /\ Bound("data") => FromListedTriple(locals.data.of)
    /\ error.type = "DatabaseError" => FromListedTriple(error.stmt)

(* The catalog was changed from A to B and the schema picked under A is    *)
(* still selected: the run has listed it under B, and has previewed a      *)
(* table listed under it.                                                  *)
C16_Witness ==
    /\ pc = "idle" /\ error = NoError
    /\ prev.catalog = "A" /\ prev.schema = "s2"
    /\ Value("selected_catalog") = "B" /\ Value("selected_schema") = "s2"
    /\ Value("selected_table") = "t2"
    /\ Bound("data")

====
